---- MODULE Spec2Model ----
(***************************************************************************)
(* SpinePRO Joint CAT engine (cat_engine.js) as a state machine.           *)
(*                                                                         *)
(* Numbers.  The engine computes in IEEE doubles; the model computes in    *)
(* fixed point on integers:                                                *)
(*   theta, Sigma, item information, discrimination, thresholds   x 100    *)
(*   probabilities, standard errors, SE thresholds, scores        x 1000   *)
(* A quantity below the resolution that the code keeps strictly positive   *)
(* (the 1e-12 / 1e-6 floors) is kept at one unit.                          *)
(* Math.random() is a nondeterministic choice.                             *)
(***************************************************************************)
EXTENDS Integers, Sequences, FiniteSets, TLC

VARIABLES
  bank,     \* the item bank object the engine was given
  s,        \* the session
  peer,     \* a second session on the same bank
  shared,   \* the session fields that are one object in s and in peer
  scan,     \* the scoring loop of selectNextItem, run on its own
  page      \* the browser: the document of app.js and its localStorage

vars == <<bank, s, peer, shared, scan, page>>

\* what a single-session run leaves alone
aside == <<peer, shared, scan, page>>

Null == "null"

(* ------------------------------------------------------------------ *)
(* Bounds of the model                                                 *)
(* ------------------------------------------------------------------ *)

\* longest response log explored when answer() is called freely
MaxLog == 3

\* the scoring loop on its own: number of candidates, and largest score
MaxCand == 4
MaxScore == 3

(* ------------------------------------------------------------------ *)
(* Arithmetic helpers                                                  *)
(* ------------------------------------------------------------------ *)

U == 10 * 10          \* one unit of theta / Sigma / information
P == 10 * U           \* one unit of probability / standard error / score

Abs(x) == IF x < 0 THEN -x ELSE x
Max(a, b) == IF a >= b THEN a ELSE b
Min(a, b) == IF a <= b THEN a ELSE b

\* a / b of two doubles, on scaled integers: rounds toward zero
Quot(a, b) ==
  LET q == Abs(a) \div Abs(b)
  IN  IF (a < 0) # (b < 0) THEN -q ELSE q

RECURSIVE SqrtBits(_, _, _)
\* largest r with r*r <= x, found bit by bit from 2^k down
SqrtBits(x, r, bit) ==
  IF bit = 0 THEN r
  ELSE IF (r + bit) * (r + bit) <= x
       THEN SqrtBits(x, r + bit, bit \div 2)
       ELSE SqrtBits(x, r, bit \div 2)

\* Math.sqrt on a non-negative integer: floor of the root
Sqrt(x) == SqrtBits(x, 0, 16384)

SeqToSet(q) == { q[i] : i \in 1..Len(q) }

RECURSIVE Arr(_, _)
\* the array <<f[1], ..., f[n]>>, every entry computed once
Arr(f, n) == IF n = 0 THEN << >> ELSE Append(Arr(f, n - 1), f[n])

\* a non-finite double (NaN, or a null threshold placeholder of the bank export)
NaN == 0 - 2^30
IsFinite(v) == v # NaN

(* ------------------------------------------------------------------ *)
(* Item response model (graded response model)                         *)
(* ------------------------------------------------------------------ *)

\* 1/(1+exp(-x)) at x = 0, 1, ..., 7 (x 1000)
LogisticKnots == <<500, 731, 881, 953, 982, 993, 998, 999>>

\* the logistic curve on 0 <= x: linear between the knots, below 1 up to 35
LogisticPos(x) ==
  IF x >= 7 * U THEN LogisticKnots[8]
  ELSE LET i  == x \div U
           lo == LogisticKnots[i + 1]
           hi == LogisticKnots[i + 2]
       IN  lo + ((hi - lo) * (x % U)) \div U

\* logistic(x): saturates to exactly 1 and 0 outside +-35
logistic(x) ==
  IF x > 35 * U THEN P
  ELSE IF x < -(35 * U) THEN 0
  ELSE IF x >= 0 THEN LogisticPos(x)
  ELSE P - LogisticPos(-x)

\* b.filter(v => Number.isFinite(v))
finiteThresholds(item) == SelectSeq(item.thresholds, IsFinite)

\* Pge[k] of grmCatProbs, k = 0..K: P(Y >= k)
Pge(theta, a, b, k) ==
  IF k = 0 THEN P
  ELSE IF k > Len(b) THEN 0
  ELSE logistic(Quot(a * (theta - b[k]), U))

\* grmCatProbs(theta, a, b): category probabilities, indexed 0..K-1
grmCatProbs(theta, a, b) ==
  [k \in 0..Len(b) |-> Pge(theta, a, b, k) - Pge(theta, a, b, k + 1)]

\* dPge[k] of grmCatDerivs: a*L*(1-L), 0 at both ends
dCurve(a, L) == Quot(a * L * (P - L), U * P)

dPge(theta, a, b, k) ==
  IF k = 0 \/ k > Len(b) THEN 0 ELSE dCurve(a, Pge(theta, a, b, k))

\* grmCatDerivs(theta, a, b): probs floored at eps and renormalised, and dprobs
grmCatDerivs(theta, a, b) ==
  [probs  |-> [k \in 0..Len(b) |-> Max(1, grmCatProbs(theta, a, b)[k])],
   dprobs |-> [k \in 0..Len(b) |->
                 dPge(theta, a, b, k) - dPge(theta, a, b, k + 1)]]

RECURSIVE InfoSum(_, _)
\* sum over categories 0..k of pk * (dprobs[k]/pk)^2
InfoSum(pd, k) ==
  IF k < 0 THEN 0
  ELSE Quot(pd.dprobs[k] * pd.dprobs[k], Max(1, pd.probs[k])) + InfoSum(pd, k - 1)

\* itemInfo(theta, item): Fisher information, floored above zero
itemInfo(theta, item) ==
  Max(1, Quot(InfoSum(grmCatDerivs(theta, item.discrimination, finiteThresholds(item)),
                      Len(finiteThresholds(item))), 10))

\* grad and hess of log P_resp from the two cumulative curves around resp:
\*   grad = a (1 - G0 - G1),  hess = -a^2 (G0 (1 - G0) + G1 (1 - G1)).
\* The code takes central differences of log P_resp with h = 1e-4; below the
\* resolution of the model these are the derivatives themselves.
\* probs[resp] is undefined, and both results NaN, for resp outside 0..K'-1;
\* the log of a probability that is exactly 0 (both curves saturated) or
\* negative (thresholds out of order) is -Infinity or NaN, and so are both results.
gradHessAt(a, Kp, resp, G0, G1) ==
  IF \/ resp = NaN \/ resp < 0 \/ resp > Kp - 1
     \/ G0 < G1
     \/ G0 = G1 /\ G0 \in {0, P}
  THEN [grad |-> NaN, hess |-> NaN]
  ELSE [grad |-> Quot(a * (P - G0 - G1), P),
        hess |-> -Quot(Quot(a * a, U) * (G0 * (P - G0) + G1 * (P - G1)), P * P)]

\* itemGradHess(theta, item, resp): d/dtheta and d2/dtheta2 of log P_resp
\* (at a NaN theta every probability, and both results, are NaN)
itemGradHess(theta, item, resp) ==
  IF theta = NaN THEN [grad |-> NaN, hess |-> NaN]
  ELSE gradHessAt(item.discrimination, Len(finiteThresholds(item)) + 1, resp,
             Pge(theta, item.discrimination, finiteThresholds(item), resp),
             Pge(theta, item.discrimination, finiteThresholds(item), resp + 1))

(* ------------------------------------------------------------------ *)
(* Posterior state tracker                                             *)
(* ------------------------------------------------------------------ *)

D(b) == Len(b.domains)

\* domIndex[d]: position of a domain name in bank.domains
domIndex(b, d) == CHOOSE i \in 1..D(b) : b.domains[i] = d

\* a / b rounded to the nearest integer, halves away from zero
Round(a, b) ==
  IF 2 * (Abs(a) % Abs(b)) >= Abs(b)
  THEN Quot(a, b) + (IF (a < 0) # (b < 0) THEN -1 ELSE 1)
  ELSE Quot(a, b)

\* x * y of two doubles: the product rounded to the resolution of the model
Times(x, y) == Round(x * y, U)

\* factor = info / denom, denom = 1 + info * Sigma[d][d]
factorOf(Sg, d, info) == Round(info * U, U + Times(info, Sg[d][d]))

\* an update with the sign of the correction reversed
entry_adds(Sij, factor, ci, cj) == Sij + Times(Times(factor, ci), cj)

\* an update that takes the column entry of the row twice
entry_squaresColumn(Sij, factor, ci, cj) == Sij - Times(Times(factor, ci), ci)

\* Sigma[i][j] - factor * Sigma_col[i] * Sigma_col[j]: the product is taken
\* left to right, (factor * Sigma_col[i]) * Sigma_col[j], each step rounded
entry(Sij, factor, ci, cj) == Sij - Times(Times(factor, ci), cj)

\* updatePosteriorCov(bank, s, item): Sherman-Morrison downdate of Sigma
\* Sigma - (info / (1 + info * Sigma[d][d])) * col_d col_d^T
downdate(Sg, d, info) ==
  Arr([i \in 1..Len(Sg) |-> Arr([j \in 1..Len(Sg) |->
         entry(Sg[i][j], factorOf(Sg, d, info), Sg[i][d], Sg[j][d])],
       Len(Sg))], Len(Sg))

updatePosteriorCov(b, ss, item) ==
  [ss EXCEPT !.Sigma =
     downdate(ss.Sigma, domIndex(b, item.domain),
              itemInfo(ss.theta_vec[domIndex(b, item.domain)], item))]

\* one entry of updateSE: sqrt(max(1e-12, Sigma[i][i]))
seOf(v) == IF v <= 0 THEN 1 ELSE Max(1, Sqrt(v * U * U))

\* updateSE(bank, s): per-domain standard errors from the diagonal
updateSE(b, ss) ==
  [ss EXCEPT !.se = Arr([i \in 1..D(b) |-> seOf(ss.Sigma[i][i])], D(b))]

RECURSIVE SumSq(_, _)
\* sum of v*v over the first n entries of a sequence
SumSq(q, n) == IF n = 0 THEN 0 ELSE q[n] * q[n] + SumSq(q, n - 1)

\* RMS of a sequence of standard errors; NaN (the code's null) for an empty one
rms(ses) == IF Len(ses) = 0 THEN NaN ELSE Sqrt(SumSq(ses, Len(ses)) \div Len(ses))

\* globalSE(s): RMS of the domain SEs, NaN standing for its null
globalSE(ss) == rms(ss.se)

(* ------------------------------------------------------------------ *)
(* MAP estimator                                                       *)
(* ------------------------------------------------------------------ *)

\* NaN-propagating double arithmetic
NAdd(x, y) == IF x = NaN \/ y = NaN THEN NaN ELSE x + y
\* Math.max(lo, Math.min(hi, x)): NaN stays NaN
Clamp(lo, hi, x) == IF x = NaN THEN NaN ELSE Max(lo, Min(hi, x))

maxIter == 50

\* K of mapUpdateTheta: thresholds.length + 1, placeholders included
categoryCount(item) == Len(item.thresholds) + 1

\* needsFlip: display order and calibration order differ
needsFlip(item) ==
  \/ item.domain = "Physical_Function"
  \/ item.domain = "Participation"
  \/ item.higher_theta_means = "better"

\* clamp to [0, K-1], reflect for reversed polarity, clamp again
reflect(K, flip, r1) ==
  IF flip /\ r1 # NaN THEN Clamp(0, K - 1, (K - 1) - r1) ELSE r1

\* a response reflected without being clamped first
observedCategory_unclamped(item, response) ==
  reflect(categoryCount(item), needsFlip(item), response)

\* the category at which the likelihood of a logged response is evaluated
observedCategory(item, response) ==
  reflect(categoryCount(item), needsFlip(item),
          Clamp(0, categoryCount(item) - 1, response))

\* priorPrec[d] = 1 / priorVar[d], the prior variance defaulting to 1
priorPrec(b, d) ==
  IF IsFinite(b.prior_covariance[d][d]) /\ b.prior_covariance[d][d] > 0
  THEN Quot(U * U, b.prior_covariance[d][d]) ELSE U

\* grad[d] += g; hess[d] += h
addGradHess(acc, gh) ==
  [grad |-> NAdd(acc.grad, gh.grad), hess |-> NAdd(acc.hess, gh.hess)]

RECURSIVE LikTerm(_, _, _, _, _)
\* the likelihood part of grad[d], hess[d]: the sum over administered[1..n]
\* of itemGradHess at th, over the items of domain d
LikTerm(b, ss, d, th, n) ==
  IF n = 0 THEN [grad |-> 0, hess |-> 0]
  ELSE IF domIndex(b, b.items[ss.administered[n].item_id].domain) # d
       THEN LikTerm(b, ss, d, th, n - 1)
       ELSE addGradHess(LikTerm(b, ss, d, th, n - 1),
              itemGradHess(th, b.items[ss.administered[n].item_id],
                 observedCategory(b.items[ss.administered[n].item_id],
                                  ss.administered[n].response)))

\* theta[d] + step, clamped; change is |step|
moveBy(th, step) ==
  [theta |-> Clamp(-(4 * U), 4 * U, th + step), change |-> Abs(step)]

\* the Newton step -grad / denom with denom = hess - 0.01, clamped to [-1, 1];
\* skipped (change 0) when |denom| < 1e-8
applyStep(th, grad, denom) ==
  IF denom = 0 THEN [theta |-> th, change |-> 0]
  ELSE IF grad = NaN \/ denom = NaN THEN [theta |-> NaN, change |-> NaN]
  ELSE moveBy(th, Clamp(-U, U, Quot(-(grad * U), denom)))

\* grad and denom of domain d: the prior term plus the likelihood term
stepFrom(th, prec, lik) ==
  applyStep(th,
            IF th = NaN THEN NaN ELSE NAdd(-Quot(prec * th, U), lik.grad),
            NAdd(NAdd(-prec, lik.hess), -1))

\* one Newton step of domain d: [theta |-> new theta[d], change |-> |step|]
newtonStep(b, ss, d, th) ==
  stepFrom(th, priorPrec(b, d), LikTerm(b, ss, d, th, Len(ss.administered)))

\* Math.max(m, c) on doubles
maxOrNaN(m, c) == IF m = NaN \/ c = NaN THEN NaN ELSE Max(m, c)

RECURSIVE MaxChange(_, _)
\* Math.max over the first n changes, starting from 0: NaN once any is NaN
MaxChange(steps, n) ==
  IF n = 0 THEN 0 ELSE maxOrNaN(MaxChange(steps, n - 1), steps[n].change)

\* newTheta of one iteration
thetaOf(steps) == Arr([d \in 1..Len(steps) |-> steps[d].theta], Len(steps))

\* maxChange < 1e-4: below the resolution, and false for NaN
converged(change) == change # NaN /\ change = 0

RECURSIVE newtonLoop(_, _, _, _)
RECURSIVE afterIteration(_, _, _, _)
\* the for(iter) loop of mapUpdateTheta from iteration iter on
newtonLoop(b, ss, theta, iter) ==
  IF iter >= maxIter THEN theta
  ELSE afterIteration(b, ss, iter,
         Arr([d \in 1..D(b) |-> newtonStep(b, ss, d, theta[d])], D(b)))

\* theta = newTheta; if (maxChange < 1e-4) break
afterIteration(b, ss, iter, steps) ==
  IF converged(MaxChange(steps, Len(steps))) THEN thetaOf(steps)
  ELSE newtonLoop(b, ss, thetaOf(steps), iter + 1)

\* a final pass that lets the estimate through as it is
finalClamp_none(theta) == theta

\* the final pass: non-finite to 0, clamp to [-4, 4]
finalClamp(theta) ==
  Arr([d \in 1..Len(theta) |->
         IF IsFinite(theta[d]) THEN Clamp(-(4 * U), 4 * U, theta[d]) ELSE 0], Len(theta))

\* theta initialised from the session, nulls and non-finite values to 0
startTheta(ss) ==
  Arr([d \in 1..Len(ss.theta_vec) |->
         IF IsFinite(ss.theta_vec[d]) THEN ss.theta_vec[d] ELSE 0], Len(ss.theta_vec))

\* mapUpdateTheta(bank, s)
mapUpdateTheta(b, ss) ==
  [ss EXCEPT !.theta_vec = finalClamp(newtonLoop(b, ss, startTheta(ss), 0))]

(* ------------------------------------------------------------------ *)
(* Selection policy                                                    *)
(* ------------------------------------------------------------------ *)

\* an optional configuration number that is absent (undefined / null)
None == 0 - 1

\* -Infinity, the initial bestScore
NegInf == 1 - 2^30

srs_domains ==
  <<"SRS_Pain", "SRS_Function", "SRS_Self_Image", "SRS_Mental_Health", "SRS_Satisfaction">>

promis_domains ==
  <<"Physical_Function", "Participation", "Fatigue", "Anxiety", "Depression">>

\* s.domain_counts[d] || 0
countOf(ss, d) ==
  IF d \in DOMAIN ss.domain_counts THEN ss.domain_counts[d] ELSE 0

administeredIds(ss) == { ss.administered[i].item_id : i \in 1..Len(ss.administered) }

\* a coverage test with the negation lost: the domains already covered
coverageNeeded_covered(b, ss) == { d \in SeqToSet(b.domains) : countOf(ss, d) # 0 }

\* coverageNeeded(bank, s): the bank domains with no administered item
coverageNeeded(b, ss) == { d \in SeqToSet(b.domains) : countOf(ss, d) = 0 }

\* a selection that ignores the constraint graph
allowed_all(ss, id) == TRUE

\* allowed(id) of selectNextItem: no administered item is a partner of id
allowed(ss, id) ==
  \A prev \in administeredIds(ss) : <<id, prev>> \notin ss.constraints_adj

\* the coverage gate applies: need.length && administered.length < min_items + need.length
gateOpen(b, ss) ==
  /\ coverageNeeded(b, ss) # {}
  /\ b.cat_config.min_items # None
  /\ Len(ss.administered) < b.cat_config.min_items + Cardinality(coverageNeeded(b, ss))

\* candidateIds of selectNextItem after the gate and both allowed() filters;
\* the empty sequence where the code returns null
\* remaining.filter(allowed)
allowedOf(ss, ids) == LET isAllowed(id) == allowed(ss, id) IN SelectSeq(ids, isAllowed)

\* remaining.filter(id => need.includes(bank.items[id].domain))
inNeedOf(b, ss, ids) ==
  LET inNeed(id) == b.items[id].domain \in coverageNeeded(b, ss) IN SelectSeq(ids, inNeed)

\* the coverage gate: the under-covered items of remaining, or all of remaining
gate(remaining, gated) == IF gated = << >> THEN remaining ELSE gated

candidateIds(b, ss) ==
  IF ss.remaining = << >> \/ allowedOf(ss, ss.remaining) = << >> THEN << >>
  ELSE IF gateOpen(b, ss)
       THEN allowedOf(ss, gate(ss.remaining, inNeedOf(b, ss, ss.remaining)))
       ELSE allowedOf(ss, allowedOf(ss, ss.remaining))

RECURSIVE ColSq(_, _, _)
\* colSq: sum over rows 1..n of Sigma[i][d]^2
ColSq(Sg, d, n) == IF n = 0 THEN 0 ELSE Sg[n][d] * Sg[n][d] + ColSq(Sg, d, n - 1)

\* domain_penalty_lambda, default 0.5
lambdaOf(cfg) ==
  IF cfg.domain_penalty_lambda # None THEN cfg.domain_penalty_lambda ELSE U \div 2

\* domainWeights[d], default 1.0
weightOf(cfg, d) ==
  IF d \in DOMAIN cfg.domain_weights THEN cfg.domain_weights[d] ELSE U

\* it.domain.startsWith('SRS_')
startsWithSRS(d) == d \in SeqToSet(srs_domains)

\* the domain-balance penalty of one candidate
\* the exposure boosts subtracted from the penalty
boosted(base, c, srs) ==
  IF c = 0 THEN base - 3 * P
  ELSE IF c = 1 THEN base - (3 * P) \div 2
  ELSE IF c = 2 /\ srs THEN base - P \div 2
  ELSE base

\* lambda * count^2 / max(0.25, weight)
basePenalty(lambda, c, w) == Quot(lambda * c * c * P, Max(U \div 4, w))

penaltyOf(b, ss, item) ==
  boosted(basePenalty(lambdaOf(b.cat_config), countOf(ss, item.domain),
                      weightOf(b.cat_config, item.domain)),
          countOf(ss, item.domain), startsWithSRS(item.domain))

\* score = gain - penalty of one candidate (A-optimal trace reduction)
\* gain = info * colSq / (1 + info * Sigma[d][d])
gainOf(info, colSq, Sdd) == Quot(10 * info * colSq, U * U + info * Sdd)

\* gain of administering an item of domain index d
gainAt(ss, item, d) ==
  gainOf(itemInfo(ss.theta_vec[d], item), ColSq(ss.Sigma, d, Len(ss.Sigma)), ss.Sigma[d][d])

scoreOf(b, ss, id) ==
  gainAt(ss, b.items[id], domIndex(b, b.items[id].domain)) - penaltyOf(b, ss, b.items[id])

\* a scoring pass whose tie branch also moves bestScore
compareWithin_driftingTie(tol, prev, score, id) ==
  IF score > prev.bestScore + tol THEN [bestScore |-> score, bestIds |-> {id}]
  ELSE IF Abs(score - prev.bestScore) <= tol
       THEN [bestScore |-> score, bestIds |-> {id}]
       ELSE prev

\* one pass of the scoring loop with tolerance tol: a score above
\* bestScore + tol replaces the best; one within tol of bestScore replaces
\* bestId or not (the coin flip) and leaves bestScore as it is
compareWithin(tol, prev, score, id) ==
  IF score > prev.bestScore + tol THEN [bestScore |-> score, bestIds |-> {id}]
  ELSE IF Abs(score - prev.bestScore) <= tol
       THEN [bestScore |-> prev.bestScore, bestIds |-> prev.bestIds \cup {id}]
       ELSE prev

\* the pass on session scores, whose resolution is far above 1e-12
compareBest(prev, score, id) == compareWithin(0, prev, score, id)

RECURSIVE bestAfter(_, _, _, _)
\* the scoring loop over cand[1..n]: bestScore, and every id bestId can hold
\* (a tie replaces bestId or not, by a coin flip)
bestAfter(b, ss, cand, n) ==
  IF n = 0 THEN [bestScore |-> NegInf, bestIds |-> {cand[1]}]
  ELSE compareBest(bestAfter(b, ss, cand, n - 1), scoreOf(b, ss, cand[n]), cand[n])

\* selectNextItem(bank, s): every id the call can return; Null for its null
\* the return of selectNextItem for a candidate list
chooseAmong(b, ss, cand) ==
  IF cand = << >> THEN {Null}
  ELSE IF Len(ss.administered) = 0 THEN SeqToSet(cand)
  ELSE bestAfter(b, ss, cand, Len(cand)).bestIds

selectNextItem(b, ss) == chooseAmong(b, ss, candidateIds(b, ss))

(* ------------------------------------------------------------------ *)
(* Termination policy                                                  *)
(* ------------------------------------------------------------------ *)

defaultMaxItems == 18
defaultThreshold == 350

\* cfg.max_items ?? 18
maxItemsOf(cfg) == IF cfg.max_items # None THEN cfg.max_items ELSE defaultMaxItems

\* cfg.min_items ?? 0
minItemsOf(cfg) == IF cfg.min_items # None THEN cfg.min_items ELSE 0

\* min_items_by_domain[domain] ?? 1
min_items_by_domain(d) == IF d = "Participation" THEN 2 ELSE 1

\* srs_min_met / promis_min_met: every domain of the group has its minimum exposure
groupMinMet(ss, group) ==
  \A i \in 1..Len(group) : countOf(ss, group[i]) >= min_items_by_domain(group[i])

\* covered.size: distinct domains among the administered records
coveredSize(ss) ==
  Cardinality({ ss.administered[i].domain : i \in 1..Len(ss.administered) })

\* cfg.global_SE_threshold ?? cfg.target_global_se ?? 0.35
thrAll(cfg) ==
  IF cfg.global_SE_threshold # None THEN cfg.global_SE_threshold
  ELSE IF cfg.target_global_se # None THEN cfg.target_global_se
  ELSE defaultThreshold

\* cfg.promis_SE_threshold ?? thr_all
thrPromis(cfg) ==
  IF cfg.promis_SE_threshold # None THEN cfg.promis_SE_threshold ELSE thrAll(cfg)

\* the PROMIS domains that are domains of the bank
promisIn(b) == LET present(d) == d \in SeqToSet(b.domains) IN SelectSeq(promis_domains, present)

\* .map(d => s.se[d]) over those domains
sesOf(b, ss, names) ==
  Arr([i \in 1..Len(names) |-> ss.se[domIndex(b, names[i])]], Len(names))

\* promis_ses: the SEs of the PROMIS domains the session has
promisSes(b, ss) == sesOf(b, ss, promisIn(b))

\* eligibleCandidates(bank, s): remaining minus the partners, under the bank's
\* own pair_exclusion_constraints, of the items already asked
eligibleCandidates(b, ss) ==
  LET free(id) == \A a \in administeredIds(ss) : <<a, id>> \notin b.pair_exclusion
  IN  SelectSeq(ss.remaining, free)

\* a policy without rule a
belowMinItems_off(cfg, n) == FALSE

\* rule a: n < minItems
belowMinItems(cfg, n) == n < minItemsOf(cfg)

\* a policy without the hard cap
capReached_never(cfg, n) == FALSE

\* a hard cap that is one answer late: n > maxItems
capReached_strict(cfg, n) == n > maxItemsOf(cfg)

\* the hard cap of rules b, c and e: n >= maxItems
capReached(cfg, n) == n >= maxItemsOf(cfg)

\* rule b: cfg.domains_min != null && covered.size < cfg.domains_min
coverageUnmet(cfg, ss) == cfg.domains_min # None /\ coveredSize(ss) < cfg.domains_min

\* a policy without rule c
exposureUnmet_off(ss) == FALSE

\* rule c: !srs_min_met || !promis_min_met
exposureUnmet(ss) == ~groupMinMet(ss, srs_domains) \/ ~groupMinMet(ss, promis_domains)

\* gse !== null && gse <= thr
reached(gse, thr) == gse # NaN /\ gse <= thr

\* rule f: cfg.stop_if_bank_exhausted and no candidate left
bankExhausted(b, ss) == b.cat_config.stop_if_bank_exhausted /\ eligibleCandidates(b, ss) = << >>

continue == [stop |-> FALSE, reason |-> Null]
stopFor(reason) == [stop |-> TRUE, reason |-> reason]

\* checkStop(bank, s): [stop, reason], the first rule that matches
checkStop(b, ss) ==
  IF belowMinItems(b.cat_config, Len(ss.administered)) THEN continue
  ELSE IF coverageUnmet(b.cat_config, ss) \/ exposureUnmet(ss)
       THEN (IF capReached(b.cat_config, Len(ss.administered))
             THEN stopFor("max_items") ELSE continue)
  ELSE IF reached(globalSE(ss), thrAll(b.cat_config))
       THEN stopFor("precision_reached_all_domains")
  ELSE IF reached(rms(promisSes(b, ss)), thrPromis(b.cat_config))
       THEN stopFor("precision_reached_promis")
  ELSE IF capReached(b.cat_config, Len(ss.administered)) THEN stopFor("max_items")
  ELSE IF bankExhausted(b, ss) THEN stopFor("bank_exhausted")
  ELSE continue

(* ------------------------------------------------------------------ *)
(* Session controller                                                  *)
(* ------------------------------------------------------------------ *)

\* severityBand(theta, norm) without norms: SD cutoffs on theta
severityBand(theta) ==
  IF theta <= -U THEN "Low"
  ELSE IF theta < U THEN "Typical"
  ELSE IF theta < 2 * U THEN "High"
  ELSE "Very high"

\* one entry of domain_results (norms not supplied: percentile is null)
domainResult(b, ss, i) ==
  [domain     |-> b.domains[i],
   theta      |-> ss.theta_vec[i],
   se         |-> ss.se[i],
   t_score    |-> 50 * U + 10 * ss.theta_vec[i],
   percentile |-> Null,
   severity   |-> severityBand(ss.theta_vec[i])]

\* one entry of items_administered (the item's stem is display text, left out)
itemAdministered(b, r) ==
  [item_id |-> r.item_id, domain |-> b.items[r.item_id].domain, response |-> r.response]

\* the Results value of a frozen session
resultsOf(b, s1) ==
  [kind               |-> "results",
   total_items        |-> Len(s1.administered),
   stop_reason        |-> s1.stop_reason,
   global_SE          |-> globalSE(s1),
   domain_results     |-> Arr([i \in 1..D(b) |-> domainResult(b, s1, i)], D(b)),
   items_administered |-> Arr([i \in 1..Len(s1.administered) |->
                            itemAdministered(b, s1.administered[i])], Len(s1.administered))]

\* s.global_SE = globalSE(s); s.results = {...}
withResults(b, s1) ==
  [s1 EXCEPT !.global_SE = globalSE(s1), !.results = resultsOf(b, s1)]

\* reason || s.stop_reason || "finished"
reasonOr(reason, stop_reason) ==
  IF reason # Null THEN reason
  ELSE IF stop_reason # Null THEN stop_reason
  ELSE "finished"

\* finish(bank, norms, s, reason): freeze the session and build its Results
finish(b, ss, reason) ==
  withResults(b, updateSE(b, [ss EXCEPT !.is_finished = TRUE,
                                        !.stop_reason = reasonOr(reason, ss.stop_reason)]))

\* an answer() that logs the response but leaves the item in remaining
recordResponse_keepsItem(b, ss, itemId, responseIdx) ==
  [ss EXCEPT
     !.administered = Append(ss.administered,
        [item_id |-> itemId, response |-> responseIdx, domain |-> b.items[itemId].domain]),
     !.domain_counts = (b.items[itemId].domain :> (countOf(ss, b.items[itemId].domain) + 1))
                          @@ ss.domain_counts]

\* an answer() that logs the response without counting its domain
recordResponse_uncounted(b, ss, itemId, responseIdx) ==
  [ss EXCEPT
     !.administered = Append(ss.administered,
        [item_id |-> itemId, response |-> responseIdx, domain |-> b.items[itemId].domain]),
     !.remaining = LET keep(id) == id # itemId IN SelectSeq(ss.remaining, keep)]

\* the first lines of answer(): log the response, count it, drop the item
\* from remaining (the record's timestamp is left out)
recordResponse(b, ss, itemId, responseIdx) ==
  [ss EXCEPT
     !.administered = Append(ss.administered,
        [item_id |-> itemId, response |-> responseIdx, domain |-> b.items[itemId].domain]),
     !.domain_counts = (b.items[itemId].domain :> (countOf(ss, b.items[itemId].domain) + 1))
                          @@ ss.domain_counts,
     !.remaining = LET keep(id) == id # itemId IN SelectSeq(ss.remaining, keep)]

\* an answer() that returns the unfinished session when nothing is selectable
withNext_noFinish(b, s3, next) ==
  [s3 EXCEPT !.current_item_id = next]

\* s.current_item_id = selectNextItem(bank, s); finish "bank_exhausted" on null
withNext(b, s3, next) ==
  IF next = Null
  THEN finish(b, [s3 EXCEPT !.current_item_id = Null], "bank_exhausted")
  ELSE [s3 EXCEPT !.current_item_id = next]

\* the stopping and selection part of answer(), on the updated session
stopOrSelect(b, s3, stopCheck) ==
  IF stopCheck.stop
  THEN {finish(b, s3, reasonOr(stopCheck.reason, s3.stop_reason))}
  ELSE { withNext(b, s3, next) : next \in selectNextItem(b, s3) }

\* the stopping decision on the updated session
decide(b, s3) == stopOrSelect(b, s3, checkStop(b, s3))

\* answer(bank, norms, s, itemId, responseIdx): every session it can return
answer(b, ss, itemId, responseIdx) ==
  decide(b, mapUpdateTheta(b, updateSE(b, updatePosteriorCov(b,
            recordResponse(b, ss, itemId, responseIdx), b.items[itemId]))))

\* adj of createSession: the symmetric partner relation of the pair list
constraintsAdj(constraints) ==
  { <<p[1], p[2]>> : p \in constraints } \cup { <<p[2], p[1]>> : p \in constraints }

\* the session object of createSession before the first item is selected
newSession(b, constraints) ==
  [constraints_adj |-> constraintsAdj(constraints),
   constraints_raw |-> constraints,
   theta_vec       |-> Arr([i \in 1..D(b) |-> 0], D(b)),
   Sigma           |-> b.prior_covariance,
   se              |-> Arr([i \in 1..D(b) |-> NaN], D(b)),
   administered    |-> << >>,
   remaining       |-> b.keys,
   domain_counts   |-> << >>,
   is_finished     |-> FALSE,
   stop_reason     |-> Null,
   current_item_id |-> Null,
   global_SE       |-> NaN,
   results         |-> [kind |-> "none"]]

RECURSIVE itemDomains(_, _)
\* the domains of the first k items, each once, in order of first appearance
itemDomains(b, k) ==
  IF k = 0 THEN << >>
  ELSE IF b.items[b.keys[k]].domain \in SeqToSet(itemDomains(b, k - 1))
       THEN itemDomains(b, k - 1)
       ELSE Append(itemDomains(b, k - 1), b.items[b.keys[k]].domain)

\* the bank as createSession leaves it: bank.domains, when it is not an
\* array, is replaced in the bank by the keys of the object it is, or by the
\* domains of the items (domains holds the keys of an object-shaped list)
normalizeDomains(b) ==
  IF b.domains_shape = "array" THEN b
  ELSE IF b.domains_shape = "object" THEN [b EXCEPT !.domains_shape = "array"]
  ELSE [b EXCEPT !.domains = itemDomains(b, Len(b.keys)), !.domains_shape = "array"]

\* a copy that hands back the object it was given
deepCopy_sameObject(holders, who) == holders \cup {who}

\* who = deepCopy(x), x an object held by holders: the holders of the object
\* who is left with, a new one (its value is the value of x)
deepCopy(holders, who) == {who}

\* session.current_item_id = next; updateSE(bank, session)
firstItem(b, s0) ==
  { updateSE(b, [s0 EXCEPT !.current_item_id = next]) : next \in selectNextItem(b, s0) }

\* createSession(bank, norms, constraints): every session it can return
createSession(b, constraints) ==
  firstItem(normalizeDomains(b), newSession(normalizeDomains(b), constraints))

\* the bank-exhausted branch of nextItem: s.results = finish(...) stores the
\* session itself, which finish returns, in place of its Results
exhaustedByNextItem(b, ss) ==
  [finish(b, [ss EXCEPT !.is_finished = TRUE,
                        !.stop_reason = reasonOr(ss.stop_reason, "bank_exhausted")],
          reasonOr(ss.stop_reason, "bank_exhausted"))
     EXCEPT !.results = [kind |-> "session"]]

\* a nextItem() that selects again while an item is pending
nextItem_reselects(b, ss) ==
  IF ss.is_finished THEN {ss}
  ELSE { IF nid = Null THEN exhaustedByNextItem(b, ss)
         ELSE [ss EXCEPT !.current_item_id = nid]
         : nid \in selectNextItem(b, ss) }

\* nextItem(bank, s): every session after the call
nextItem(b, ss) ==
  IF ss.is_finished \/ ss.current_item_id # Null THEN {ss}
  ELSE { IF nid = Null THEN exhaustedByNextItem(b, ss)
         ELSE [ss EXCEPT !.current_item_id = nid]
         : nid \in selectNextItem(b, ss) }

RECURSIVE replay(_, _, _, _)
RECURSIVE replayRest(_, _, _, _)
\* the replay loop of backOne over answers[k..], from each session of S
replay(b, S, answers, k) ==
  IF k > Len(answers) THEN S
  ELSE replayRest(b, answers, k,
         UNION { answer(b, x, answers[k].item_id, answers[k].response) : x \in S })

\* a replay loop that breaks after its first answer
replayRest_breaksAlways(b, answers, k, after) == after

\* if (session.is_finished) break
replayRest(b, answers, k, after) ==
  { x \in after : x.is_finished }
    \cup replay(b, { x \in after : ~x.is_finished }, answers, k + 1)

\* a backOne() that replays the whole log
backOne_replaysAll(b, ss) ==
  replay(b, createSession(b, ss.constraints_raw), ss.administered, 1)

\* backOne(bank, norms, s): every session it can return
backOne(b, ss) ==
  IF Len(ss.administered) = 0 THEN {ss}
  ELSE replay(b, createSession(b, ss.constraints_raw),
              SubSeq(ss.administered, 1, Len(ss.administered) - 1), 1)

(* ------------------------------------------------------------------ *)
(* Item banks, configurations and constraints explored                 *)
(* ------------------------------------------------------------------ *)

Item(domain, a, thresholds, polarity) ==
  [domain |-> domain, discrimination |-> a, thresholds |-> thresholds,
   higher_theta_means |-> polarity]

Cfg(min, max, dmin, thr, thrPromis_, exhausted) ==
  [min_items |-> min, max_items |-> max, domains_min |-> dmin,
   global_SE_threshold |-> thr, target_global_se |-> None,
   promis_SE_threshold |-> thrPromis_, stop_if_bank_exhausted |-> exhausted,
   domain_penalty_lambda |-> None, domain_weights |-> << >>]

FiveCat == <<-100, 0, 100, 200>>

\* a bank with no items
EmptyBank ==
  [name |-> "empty", domains |-> <<"Anxiety">>, domains_shape |-> "array", items |-> << >>, keys |-> << >>,
   prior_covariance |-> <<<<100>>>>, pair_exclusion |-> {},
   cat_config |-> Cfg(1, 2, None, 0, None, FALSE)]

\* two correlated domains, three five-category items
PairBank(cfg) ==
  [name |-> "pair",
   domains |-> <<"Anxiety", "Participation">>,
   domains_shape |-> "array",
   items |-> [x |-> Item("Anxiety", 130, FiveCat, "worse"),
              y |-> Item("Participation", 150, FiveCat, "worse"),
              z |-> Item("Anxiety", 110, FiveCat, "worse")],
   keys |-> <<"x", "y", "z">>,
   prior_covariance |-> <<<<100, 30>>, <<30, 100>>>>,
   pair_exclusion |-> {},
   cat_config |-> cfg]

PairConfigs ==
  { Cfg(1, 2, None, 0, None, FALSE),       \* unreachable precision, cap 2
    Cfg(3, 2, None, 0, None, FALSE),       \* min_items above max_items
    Cfg(0, 3, 2, 400, None, TRUE),         \* domains_min, stop on exhaustion
    Cfg(None, None, None, 400, None, FALSE) }  \* defaults

\* configurations no three-item bank can satisfy: min_items and max_items
\* above the number of items, a per-domain minimum above the items of a domain
OversizeConfigs ==
  { Cfg(5, 6, None, 0, None, FALSE),
    Cfg(0, 6, 3, 0, None, FALSE) }

PairConstraints == { {}, {<<"x", "y">>} }

\* the ten scored domains, twelve items
FullDomains == promis_domains \o srs_domains

FullBank(cfg) ==
  [name |-> "full",
   domains |-> FullDomains,
   domains_shape |-> "array",
   items |-> [PF1 |-> Item("Physical_Function", 200, FiveCat, "worse"),
              PA1 |-> Item("Participation", 190, FiveCat, "worse"),
              PA2 |-> Item("Participation", 180, FiveCat, "worse"),
              FA1 |-> Item("Fatigue", 170, FiveCat, "worse"),
              AN1 |-> Item("Anxiety", 160, FiveCat, "worse"),
              AN2 |-> Item("Anxiety", 150, FiveCat, "worse"),
              DE1 |-> Item("Depression", 140, FiveCat, "worse"),
              SP1 |-> Item("SRS_Pain", 130, FiveCat, "better"),
              SF1 |-> Item("SRS_Function", 120, FiveCat, "better"),
              SI1 |-> Item("SRS_Self_Image", 110, FiveCat, "better"),
              SM1 |-> Item("SRS_Mental_Health", 100, FiveCat, "better"),
              SS1 |-> Item("SRS_Satisfaction", 90, FiveCat, "better")],
   keys |-> <<"PF1", "PA1", "PA2", "FA1", "AN1", "AN2", "DE1",
              "SP1", "SF1", "SI1", "SM1", "SS1">>,
   prior_covariance |-> Arr([i \in 1..10 |-> Arr([j \in 1..10 |->
                          IF i = j THEN 100 ELSE 0], 10)], 10),
   pair_exclusion |-> {},
   cat_config |-> cfg]

FullConfigs ==
  { Cfg(4, 5, None, 0, None, FALSE),        \* the cap before the exposure minimums
    Cfg(4, 11, None, 900, None, FALSE),     \* precision of all domains at the cap
    Cfg(4, None, None, 500, 900, FALSE),    \* precision of the PROMIS group only
    Cfg(4, None, None, 0, None, TRUE) }     \* run to exhaustion

FullConstraints == { {}, {<<"AN1", "AN2">>} }

\* prior matrices a bank can carry: correlated domains, fully correlated
\* domains, and a symmetric matrix with positive diagonal that is not a
\* covariance matrix (its determinant is negative)
RoughPriors ==
  { <<<<100, 30>>, <<30, 100>>>>,
    <<<<100, 100>>, <<100, 100>>>>,
    <<<<100, 500>>, <<500, 100>>>> }

\* a bank export with null placeholders in the thresholds of an item, all
\* three items administered before the cap
RoughBank(prior) ==
  [name |-> "rough",
   domains |-> <<"Anxiety", "Participation">>,
   domains_shape |-> "array",
   items |-> [p |-> Item("Anxiety", 130, <<-100, 0, NaN, NaN>>, "worse"),
              q |-> Item("Participation", 150, FiveCat, "worse"),
              r |-> Item("Anxiety", 110, FiveCat, "worse")],
   keys |-> <<"p", "q", "r">>,
   prior_covariance |-> prior,
   pair_exclusion |-> {},
   cat_config |-> Cfg(3, 3, None, 0, None, FALSE)]

\* the responseIdx values a caller can pass: a category index, an index out
\* of range on either side, and NaN
RawResponses == {NaN, -1, 0, 2, 4, 5}

\* the response indices tried for an item of the bank
Responses(b) == IF b.name = "full" THEN {4} ELSE {0, 4}

(* ------------------------------------------------------------------ *)
(* Specifications                                                      *)
(* ------------------------------------------------------------------ *)

\* no session yet, or no second session
NoSession == [created |-> FALSE]

\* no document of app.js loaded, nothing in localStorage
NoPage == [at |-> "none"]

\* the scoring loop not running
NoScan == [scores |-> << >>, next |-> 1, bestScore |-> 0, bestIds |-> {}]

\* the tolerance 1e-12 of the scoring loop, the unit of the scores of a scan
scanTolerance == 1

\* bestId = candidateIds[0]; bestScore = -Infinity, on candidates 1..n
scanStart(scores) ==
  [scores |-> scores, next |-> 1, bestScore |-> NegInf, bestIds |-> {1}]

\* the loop variables after a pass
scanned(sc, r) ==
  [sc EXCEPT !.next = sc.next + 1, !.bestScore = r.bestScore, !.bestIds = r.bestIds]

\* one session only
Alone == peer = NoSession /\ shared = {} /\ scan = NoScan /\ page = NoPage

\* createJointCATEngine / createSession on a bank and a constraint list
Init ==
  \E b \in {EmptyBank} \cup { PairBank(c) : c \in PairConfigs } :
  \E cons \in PairConstraints :
     /\ bank = b
     /\ s \in createSession(b, cons)
     /\ Alone

InitDriven ==
  \E b \in { PairBank(c) : c \in PairConfigs } \cup { FullBank(c) : c \in FullConfigs } :
  \E cons \in (IF b.name = "full" THEN FullConstraints ELSE PairConstraints) :
     /\ bank = b
     /\ s \in createSession(b, cons)
     /\ Alone

\* answer(itemId, responseIdx) on any item of the bank, in any state
Answer ==
  /\ Len(s.administered) < MaxLog
  /\ \E itemId \in SeqToSet(bank.keys), r \in Responses(bank) :
        s' \in answer(bank, s, itemId, r)
  /\ UNCHANGED <<bank, aside>>

\* the caller answers the item it was shown
AnswerPending ==
  /\ ~s.is_finished
  /\ s.current_item_id # Null
  /\ \E r \in Responses(bank) : s' \in answer(bank, s, s.current_item_id, r)
  /\ UNCHANGED <<bank, aside>>

\* the reason arguments finish() is called with: none, or the caller's own
finishReasons == {Null, "user_quit"}

NextItem ==
  /\ s' \in nextItem(bank, s)
  /\ UNCHANGED <<bank, aside>>

Finish ==
  /\ \E reason \in finishReasons : s' = finish(bank, s, reason)
  /\ UNCHANGED <<bank, aside>>

\* backOne(), explored on logs of at most MaxLog answers
BackOne ==
  /\ Len(s.administered) <= MaxLog
  /\ s' \in backOne(bank, s)
  /\ UNCHANGED <<bank, aside>>

\* the scoring loop started on a list of scores that differ by multiples of
\* the tolerance
InitScan ==
  /\ bank = EmptyBank
  /\ s \in createSession(EmptyBank, {})
  /\ peer = NoSession /\ shared = {} /\ page = NoPage
  /\ \E n \in 1..MaxCand : \E scores \in [1..n -> 0..MaxScore] :
        scan = scanStart(Arr(scores, n))

\* one pass of for(const id of candidateIds)
ScanStep ==
  /\ scan.next <= Len(scan.scores)
  /\ scan' = scanned(scan, compareWithin(scanTolerance, scan, scan.scores[scan.next], scan.next))
  /\ UNCHANGED <<bank, s, peer, shared, page>>

\* the two sessions of a page that builds two engines on one bank
sessionOf(who) == IF who = "s" THEN s ELSE peer

\* the sessions whose Sigma is the bank's own prior_covariance array, after
\* session.Sigma = deepCopy(bank.prior_covariance) in the session who
holdersAfterCopy(who) ==
  IF "bank" \in deepCopy(shared \cup {"bank"}, who)
  THEN deepCopy(shared \cup {"bank"}, who) \ {"bank"}
  ELSE shared \ {who}

\* the call left the session who as x2, the bank as b2 and the holders of
\* the bank's matrix as sh: the writes of updatePosteriorCov into Sigma[i][j]
\* are writes into every holder of that array
Becomes(who, x2, sh, b2) ==
  /\ shared' = sh
  /\ bank' = IF who \in sh THEN [b2 EXCEPT !.prior_covariance = x2.Sigma] ELSE b2
  /\ s' = IF who = "s" THEN x2
          ELSE IF {"s", who} \subseteq sh THEN [s EXCEPT !.Sigma = x2.Sigma]
          ELSE s
  /\ peer' = IF who = "peer" THEN x2
             ELSE IF {"peer", who} \subseteq sh THEN [peer EXCEPT !.Sigma = x2.Sigma]
             ELSE peer
  /\ UNCHANGED <<scan, page>>

\* the bank as loaded: domains an array, an object keyed by domain, or absent
RawBanks ==
  { [PairBank(Cfg(1, 2, None, 0, None, FALSE)) EXCEPT
       !.domains_shape = shape,
       !.domains = IF shape = "absent" THEN << >> ELSE @]
    : shape \in {"array", "object", "absent"} }

\* the bank loaded, no engine built yet
InitTwo ==
  /\ bank \in RawBanks
  /\ s = NoSession
  /\ peer = NoSession
  /\ shared = {}
  /\ scan = NoScan
  /\ page = NoPage

\* createSession for the first engine, then for the second on the same bank
\* and constraints
CreateOf ==
  \E who \in {"s", "peer"} :
    /\ sessionOf(who) = NoSession
    /\ who = "peer" => s # NoSession
    /\ \E cons \in (IF who = "s" THEN PairConstraints ELSE {s.constraints_raw}) :
       \E x2 \in createSession(bank, cons) :
          Becomes(who, x2, holdersAfterCopy(who), normalizeDomains(bank))

\* the caller of either engine answers the item it was shown
AnswerOf ==
  \E who \in {"s", "peer"} :
    /\ sessionOf(who) # NoSession
    /\ ~sessionOf(who).is_finished
    /\ sessionOf(who).current_item_id # Null
    /\ \E r \in Responses(bank) :
       \E x2 \in answer(bank, sessionOf(who), sessionOf(who).current_item_id, r) :
          Becomes(who, x2, shared, bank)

NextItemOf ==
  \E who \in {"s", "peer"} :
    /\ sessionOf(who) # NoSession
    /\ \E x2 \in nextItem(bank, sessionOf(who)) : Becomes(who, x2, shared, bank)

FinishOf ==
  \E who \in {"s", "peer"} :
    /\ sessionOf(who) # NoSession
    /\ \E reason \in finishReasons :
          Becomes(who, finish(bank, sessionOf(who), reason), shared, bank)

\* backOne: the session it returns has a Sigma copied again from the bank
BackOneOf ==
  \E who \in {"s", "peer"} :
    /\ sessionOf(who) # NoSession
    /\ \E x2 \in backOne(bank, sessionOf(who)) :
          Becomes(who, x2, holdersAfterCopy(who), bank)

\* the survey page on any of the banks and configurations
InitAnswering ==
  \E b \in { PairBank(c) : c \in PairConfigs \cup OversizeConfigs }
             \cup { FullBank(c) : c \in FullConfigs } :
  \E cons \in (IF b.name = "full" THEN FullConstraints ELSE PairConstraints) :
     /\ bank = b
     /\ s \in createSession(b, cons)
     /\ Alone

\* the engine built on a bank as exported
InitInputs ==
  /\ bank \in { RoughBank(prior) : prior \in RoughPriors }
  /\ s \in createSession(bank, {})
  /\ Alone

\* answer(itemId, responseIdx) on the pending item with whatever value the
\* caller passes
AnswerInput ==
  /\ ~s.is_finished
  /\ s.current_item_id # Null
  /\ \E r \in RawResponses : s' \in answer(bank, s, s.current_item_id, r)
  /\ UNCHANGED <<bank, aside>>

(* ------------------------------------------------------------------ *)
(* The pages of app.js                                                 *)
(* ------------------------------------------------------------------ *)

\* nothing under a localStorage key
Absent == [kind |-> "none"]

\* the marker the Start button writes under LS_KEYS.session
Marker == [kind |-> "marker", results |-> Absent]

\* renderResults not called yet
NotRendered == [kind |-> "nothing"]

\* renderResults({}, bank)
EmptyResults == [kind |-> "empty"]

\* JSON.stringify(api.serialize()): the session as stored under LS_KEYS.session
snapshot(ss) ==
  [kind |-> "session", results |-> ss.results, administered |-> ss.administered]

\* the session after getResults() of the engine instance:
\* _session.results || finish(_bank, _norms, _session, _session.stop_reason)
getResults(b, ss) ==
  IF ss.results.kind # "none" THEN ss ELSE finish(b, ss, ss.stop_reason)

\* localStorage.setItem(key, value) on a key holding old: the value stored,
\* or the old one when the quota is exceeded and setItem throws
setItem(ok, old, new) == IF ok THEN new ELSE old

\* the documents whose handlers still run: the survey page, also after
\* location.href was assigned and before the next document replaces it
alive == {"survey", "to_results", "to_index"}

\* step() of initSurvey on session ss: every <<session, page>> it can leave.
\* Finished: the results are stored and routeTo("/results") assigned (a
\* setItem that throws ends step before routeTo). Otherwise the next item
\* is rendered, its buttons replacing the ones shown (renderItem(null)
\* throws before it touches the buttons).
step(b, ss, pg, ok) ==
  IF ss.is_finished
  THEN { <<getResults(b, ss),
           IF ok THEN [pg EXCEPT !.results_key = getResults(b, ss).results,
                                 !.at = "to_results"]
           ELSE pg>> }
  ELSE { <<s3, IF s3.is_finished THEN pg
               ELSE [pg EXCEPT !.buttons = s3.current_item_id]>>
         : s3 \in nextItem(b, ss) }

\* the click handler of an option button of the rendered item: api.answer,
\* the snapshot under LS_KEYS.session (a throw is swallowed), then step()
onAnswer(b, ss, pg, choiceIndex, okSession, okResults) ==
  UNION { step(b, s2,
               [pg EXCEPT !.session_key = setItem(okSession, @, snapshot(s2))],
               okResults)
          : s2 \in answer(b, ss, pg.buttons, choiceIndex) }

\* the survey page after initSurvey: engine built, first step() done
surveyPage(ss) ==
  [at |-> "survey", buttons |-> ss.current_item_id, results_key |-> Absent,
   session_key |-> Marker, rendered |-> NotRendered]

\* Start on the index page after a reset, then initSurvey on /survey
InitPage ==
  \E b \in { PairBank(c) : c \in PairConfigs } :
  \E cons \in PairConstraints :
     /\ bank = b
     /\ s \in createSession(b, cons)
     /\ peer = NoSession /\ shared = {} /\ scan = NoScan
     /\ page = surveyPage(s)

\* a click on an option button that is in the document
Click ==
  /\ page.at \in alive
  /\ page.buttons # Null
  /\ Len(s.administered) < MaxLog
  /\ \E r \in Responses(bank), okSession \in BOOLEAN, okResults \in BOOLEAN :
        \E left \in onAnswer(bank, s, page, r, okSession, okResults) :
           s' = left[1] /\ page' = left[2]
  /\ UNCHANGED <<bank, peer, shared, scan>>

\* a click on Quit: routeTo("/")
Quit ==
  /\ page.at \in alive
  /\ page' = [page EXCEPT !.at = "to_index"]
  /\ UNCHANGED <<bank, s, peer, shared, scan>>

\* the navigation assigned by routeTo commits: the document is replaced
Navigate ==
  /\ page.at \in {"to_results", "to_index"}
  /\ page' = [page EXCEPT !.at = IF @ = "to_results" THEN "results" ELSE "index",
                          !.buttons = Null, !.rendered = NotRendered]
  /\ UNCHANGED <<bank, s, peer, shared, scan>>

\* the test of initResults on the stored results: domain_results present
usable(results) == results.kind = "results"

\* makeEngine(arg): the adapter reads arg.bank and hands it to the factory
\* cat_engine.js exports, if the document loaded it; createSession throws
\* on a missing bank unless window.__CAT_ASSETS__ supplies one
makeEngine(exports, arg, globalAssets) ==
  IF exports = "factory" /\ ("bank" \in DOMAIN arg \/ globalAssets)
  THEN "engine" ELSE "throws"

\* initResults() on the results page, the bank and norms loaded: the page
\* after it. exports: what cat_engine.js left on window in this document;
\* ok: whether its setItem succeeds. A throw inside the fallback ends in
\* renderResults({}, null).
initResults(b, pg, exports, ok) ==
  IF usable(pg.results_key) THEN [pg EXCEPT !.rendered = pg.results_key]
  ELSE IF pg.session_key.kind = "none" THEN [pg EXCEPT !.rendered = EmptyResults]
  ELSE IF makeEngine(exports, b, FALSE) = "throws"
       THEN [pg EXCEPT !.rendered = EmptyResults]
  ELSE IF pg.session_key.results.kind # "none"
       THEN [pg EXCEPT !.results_key = setItem(ok, @, pg.session_key.results),
                       !.rendered = IF ok THEN pg.session_key.results
                                    ELSE EmptyResults]
  ELSE [pg EXCEPT !.results_key = setItem(ok, @, [kind |-> "session"]),
                  !.rendered = IF ok THEN [kind |-> "session"] ELSE EmptyResults]

\* the user loads /results: address bar, history or refresh
OpenResults ==
  /\ page.at # "none"
  /\ page' = [page EXCEPT !.at = "results", !.buttons = Null,
                          !.rendered = NotRendered]
  /\ UNCHANGED <<bank, s, peer, shared, scan>>

\* DOMContentLoaded on the results page: initResults()
LoadResults ==
  /\ page.at = "results"
  /\ page.rendered = NotRendered
  /\ \E exports \in {"factory", "none"}, ok \in BOOLEAN :
        page' = initResults(bank, page, exports, ok)
  /\ UNCHANGED <<bank, s, peer, shared, scan>>

NextPage == Click \/ Quit \/ Navigate \/ OpenResults \/ LoadResults

\* getResults() of the engine instance
GetResults ==
  /\ s' = getResults(bank, s)
  /\ UNCHANGED <<bank, aside>>

\* isFinished() of the engine instance: !!_session.is_finished, a read
IsFinished == UNCHANGED vars

\* _getSession() of the engine instance: the session object, a read
GetSession == UNCHANGED vars

\* getCurrentItem(bank, s): bank.items[s.current_item_id] or null, a read
GetCurrentItem == UNCHANGED vars

NextEngine ==
  AnswerPending \/ GetResults \/ IsFinished \/ GetSession \/ GetCurrentItem

Next == Answer \/ NextItem \/ Finish

NextDriven == AnswerPending \/ NextItem \/ BackOne

Spec == Init /\ [][Next]_vars

SpecDriven == InitDriven /\ [][NextDriven]_vars

SpecScan == InitScan /\ [][ScanStep]_vars

\* ENABLED <<AnswerPending>>_vars: some answer to the pending item changes
\* the session
canAnswer ==
  /\ ~s.is_finished
  /\ s.current_item_id # Null
  /\ \E r \in Responses(bank) :
        \E x \in answer(bank, s, s.current_item_id, r) : x # s

\* WF_vars(AnswerPending) written out, its ENABLED as canAnswer: the page
\* shows the pending item until an option is clicked
keepsAnswering == []<>(~canAnswer) \/ []<><<AnswerPending>>_vars

\* a respondent who answers every item shown
SpecAnswering == InitAnswering /\ [][AnswerPending]_vars /\ keepsAnswering

SpecInputs == InitInputs /\ [][AnswerInput]_vars

\* an engine instance under answers and queries
SpecEngine == InitDriven /\ [][NextEngine]_vars

\* the survey page and the results page in one browser
SpecPage == InitPage /\ [][NextPage]_vars

NextTwo == CreateOf \/ AnswerOf \/ NextItemOf \/ FinishOf \/ BackOneOf

SpecTwo == InitTwo /\ [][NextTwo]_vars

(* ------------------------------------------------------------------ *)
(* Properties                                                          *)
(* ------------------------------------------------------------------ *)

remainingSet(ss) == SeqToSet(ss.remaining)

allItems == SeqToSet(bank.keys)

\* eligible: in remaining and not paired by the constraint graph with any
\* administered item
eligible(ss) ==
  { id \in remainingSet(ss) :
      \A prev \in administeredIds(ss) : <<id, prev>> \notin ss.constraints_adj }

\* the ten domains with a minimum exposure
namedDomains == SeqToSet(srs_domains) \cup SeqToSet(promis_domains)

precisionReasons == {"precision_reached_all_domains", "precision_reached_promis"}

\* C1: in every state reached from createSession by answer() calls the
\* administered item ids and the remaining pool are disjoint, their union is
\* the set of all bank items, and no step puts an item back into remaining.
C1_RemainingPartition ==
  /\ [](/\ administeredIds(s) \cap remainingSet(s) = {}
        /\ administeredIds(s) \cup remainingSet(s) = allItems)
  /\ [][remainingSet(s') \subseteq remainingSet(s)]_vars

\* two items have left remaining and one is still in it
C1_Witness == Cardinality(administeredIds(s)) = 2 /\ Len(s.remaining) = 1

\* the fields C2 names
frame(ss) ==
  <<ss.administered, ss.remaining, ss.domain_counts, ss.theta_vec, ss.Sigma,
    ss.stop_reason, ss.results>>

\* C2: once the session is Finished, an answer() call leaves the response
\* log, remaining, domain counts, theta, Sigma, stop_reason and results as
\* they were.
C2_FinishedFrame ==
  s.is_finished =>
    \A itemId \in allItems, r \in Responses(bank) :
      \A after \in answer(bank, s, itemId, r) : frame(after) = frame(s)

\* C3: in every reachable state the length of the response log plus the size
\* of remaining is the number of bank items, and no item id occurs twice in
\* the log.
C3_OneRecordOneRemoval ==
  /\ Len(s.administered) + Len(s.remaining) = Len(bank.keys)
  /\ Cardinality(administeredIds(s)) = Len(s.administered)

\* the state is one an answer() call has produced, with the log at the cap
atCap == Len(s.administered) >= 1 /\ Len(s.administered) >= maxItemsOf(bank.cat_config)

\* C4 as stated: for every configuration, after an answer() call with the
\* administered count >= max_items the session is Finished.
C4_CapAlways == atCap => s.is_finished

\* C4 amended: the same, for the configurations with min_items <= max_items.
C4_CapWhenMinBelowMax ==
  (minItemsOf(bank.cat_config) <= maxItemsOf(bank.cat_config) /\ atCap) => s.is_finished

\* an answer() call has stopped the session at the cap
C4_Witness ==
  /\ minItemsOf(bank.cat_config) <= maxItemsOf(bank.cat_config)
  /\ Len(s.administered) = maxItemsOf(bank.cat_config)
  /\ s.is_finished /\ s.stop_reason = "max_items"

\* the bank has an item in every domain and min_items <= item count
feasibleBank ==
  /\ \A d \in SeqToSet(bank.domains) : \E id \in allItems : bank.items[id].domain = d
  /\ minItemsOf(bank.cat_config) <= Len(bank.keys)

\* C5 as stated: a session of such a bank that is Finished with a
\* stop_reason other than "bank_exhausted" has, in every domain, at least
\* the domain's minimum exposure.
C5_MinimumsUnlessExhausted ==
  (feasibleBank /\ s.is_finished /\ s.stop_reason # "bank_exhausted")
     => \A d \in SeqToSet(bank.domains) : countOf(s, d) >= min_items_by_domain(d)

\* C5 amended: a session Finished with a precision stop_reason has, in every
\* one of the ten named domains, at least the domain's minimum exposure.
C5_MinimumsAtPrecisionStop ==
  (s.is_finished /\ s.stop_reason \in precisionReasons)
     => \A d \in namedDomains : countOf(s, d) >= min_items_by_domain(d)

\* a session has stopped on precision
C5_Witness == s.is_finished /\ s.stop_reason \in precisionReasons

\* the scenario of C6: precision out of reach, min_items <= max_items = M,
\* no exclusion constraints, at least M items
capScenario ==
  /\ thrAll(bank.cat_config) <= 0 /\ thrPromis(bank.cat_config) <= 0
  /\ maxItemsOf(bank.cat_config) >= 1
  /\ minItemsOf(bank.cat_config) <= maxItemsOf(bank.cat_config)
  /\ s.constraints_adj = {} /\ bank.pair_exclusion = {}
  /\ Len(bank.keys) >= maxItemsOf(bank.cat_config)

\* C6: in that scenario a session driven by answering the pending item is
\* not Finished after fewer than M answers, and is Finished with stop_reason
\* "max_items" after the M-th, which is the last.
C6_StopsExactlyAtCap ==
  capScenario =>
    /\ Len(s.administered) <= maxItemsOf(bank.cat_config)
    /\ s.is_finished <=> Len(s.administered) = maxItemsOf(bank.cat_config)
    /\ s.is_finished => s.stop_reason = "max_items"

\* the fifth answer on the twelve-item bank has stopped the session
C6_Witness ==
  capScenario /\ s.is_finished /\ Len(s.administered) = 5 /\ bank.name = "full"

\* the cascade a-g as C7 words it, rule f on the eligible items
cascade(b, ss) ==
  IF Len(ss.administered) < minItemsOf(b.cat_config) THEN continue
  ELSE IF b.cat_config.domains_min # None /\ coveredSize(ss) < b.cat_config.domains_min
       THEN (IF Len(ss.administered) >= maxItemsOf(b.cat_config)
             THEN stopFor("max_items") ELSE continue)
  ELSE IF \E d \in namedDomains : countOf(ss, d) < min_items_by_domain(d)
       THEN (IF Len(ss.administered) >= maxItemsOf(b.cat_config)
             THEN stopFor("max_items") ELSE continue)
  ELSE IF reached(rms(ss.se), thrAll(b.cat_config))
       THEN stopFor("precision_reached_all_domains")
  ELSE IF reached(rms(promisSes(b, ss)), thrPromis(b.cat_config))
       THEN stopFor("precision_reached_promis")
  ELSE IF Len(ss.administered) >= maxItemsOf(b.cat_config) THEN stopFor("max_items")
  ELSE IF b.cat_config.stop_if_bank_exhausted /\ eligible(ss) = {}
       THEN stopFor("bank_exhausted")
  ELSE continue

\* C7: for every session state and configuration checkStop returns the
\* (stop, reason) of the first matching rule of the cascade a-g.
C7_CascadeFirstMatch == checkStop(bank, s) = cascade(bank, s)

\* C8: an answer() call that makes a session Finished with fewer than
\* min_items responses gives it the stop_reason "bank_exhausted".
C8_BelowMinOnlyExhausted ==
  [][(/\ ~s.is_finished /\ s'.is_finished
      /\ Len(s'.administered) = Len(s.administered) + 1
      /\ Len(s'.administered) < minItemsOf(bank.cat_config))
        => s'.stop_reason = "bank_exhausted"]_vars

\* a session has finished below min_items, after an answer
C8_Witness ==
  /\ s.is_finished /\ s.stop_reason = "bank_exhausted"
  /\ Len(s.administered) >= 1
  /\ Len(s.administered) < minItemsOf(bank.cat_config)

\* C9: for every excluded pair {X,Y}, in every state where X has been
\* administered, selection does not return Y, Y is not the pending item, and
\* Y has not been administered.
C9_ExcludedPairNeverSelected ==
  \A p \in s.constraints_adj :
     p[1] \in administeredIds(s) =>
        /\ p[2] \notin selectNextItem(bank, s)
        /\ s.current_item_id # p[2]
        /\ p[2] \notin administeredIds(s)

\* X has been administered, Y is still in remaining and the session goes on
C9_Witness ==
  \E p \in s.constraints_adj :
     /\ p[1] \in administeredIds(s) /\ p[2] \in remainingSet(s)
     /\ ~s.is_finished /\ Len(s.administered) >= 2

\* C10: selectNextItem returns the empty sentinel if and only if no eligible
\* item exists.
C10_SentinelIffNoEligible ==
  (selectNextItem(bank, s) = {Null}) <=> (eligible(s) = {})

\* the bank domains with no record in the response log
uncovered(ss) ==
  { d \in SeqToSet(bank.domains) :
      \A i \in 1..Len(ss.administered) : ss.administered[i].domain # d }

\* the hypothesis of C11: the gate applies and an eligible item can fill it
gateApplies ==
  /\ bank.cat_config.min_items # None
  /\ uncovered(s) # {}
  /\ Len(s.administered) < bank.cat_config.min_items + Cardinality(uncovered(s))
  /\ \E id \in eligible(s) : bank.items[id].domain \in uncovered(s)

\* C11: whenever some domain has no administered item, the administered
\* count is below min_items + the number of such domains, and an eligible
\* item belongs to such a domain, every item selectNextItem can return
\* belongs to a domain with no administered item.
C11_GateSelectsUncovered ==
  gateApplies =>
    \A id \in selectNextItem(bank, s) :
       id # Null /\ bank.items[id].domain \in uncovered(s)

\* the gate applies in mid-session while an eligible item of a covered
\* domain is also on offer
C11_Witness ==
  /\ gateApplies /\ ~s.is_finished /\ Len(s.administered) >= 1
  /\ \E id \in eligible(s) : bank.items[id].domain \notin uncovered(s)

\* the loop has run over every candidate
scanDone == scan.next > Len(scan.scores)

\* C12 as stated: whatever the coin flips, the id the scoring loop returns is
\* a candidate, and no candidate's score exceeds its score by more than the
\* tolerance.
C12_MaxWithinTolerance ==
  scanDone =>
    \A id \in scan.bestIds :
       /\ id \in 1..Len(scan.scores)
       /\ \A k \in 1..Len(scan.scores) :
            scan.scores[k] - scan.scores[id] <= scanTolerance

\* C12 amended: the same, with twice the tolerance.
C12_MaxWithinTwiceTolerance ==
  scanDone =>
    \A id \in scan.bestIds :
       /\ id \in 1..Len(scan.scores)
       /\ \A k \in 1..Len(scan.scores) :
            scan.scores[k] - scan.scores[id] <= 2 * scanTolerance

\* a loop has ended where a tie could replace bestId by a lower score
C12_Witness ==
  /\ scanDone /\ Len(scan.scores) >= 2
  /\ \E id \in scan.bestIds : scan.scores[id] < scan.bestScore

\* C13: on a Finished session a second finish call, with any reason
\* argument, leaves the Results value as the first call made it.
C13_FinishIdempotent ==
  (s.is_finished /\ s.results = resultsOf(bank, s))
     => \A reason \in finishReasons : finish(bank, s, reason).results = s.results

\* C14: whenever the session is Finished its results field is a Results
\* value whose total_items is the length of the response log, whose
\* stop_reason is the session's, and which has one domain_results entry per
\* bank domain.
C14_FinishedHasResults ==
  s.is_finished =>
    /\ s.results.kind = "results"
    /\ s.results.total_items = Len(s.administered)
    /\ s.results.stop_reason = s.stop_reason
    /\ Len(s.results.domain_results) = Len(bank.domains)
    /\ \A i \in 1..Len(bank.domains) : s.results.domain_results[i].domain = bank.domains[i]

\* the two conditions of a session between calls: Finished, or awaiting the
\* response to a pending item of the remaining pool
pendingOrFinished(ss) ==
  ss.is_finished \/ (ss.current_item_id # Null /\ ss.current_item_id \in remainingSet(ss))

\* an answer() on an unfinished session that selected no next item
answeredWithoutNext ==
  /\ ~s.is_finished
  /\ Len(s'.administered) > Len(s.administered)
  /\ s'.current_item_id = Null

\* C15: on a bank with at least one item the session is, after createSession
\* and after every call, Finished or awaiting the response to a pending item
\* that is in remaining; an answer() that finds no selectable item finishes
\* the session with reason "bank_exhausted".
C15_PendingOrFinished ==
  /\ [](bank.keys # << >> => pendingOrFinished(s))
  /\ [][(bank.keys # << >> /\ answeredWithoutNext)
          => (s'.is_finished /\ s'.stop_reason = "bank_exhausted")]_vars

\* an answer() has found nothing selectable and finished the session
C15_Witness ==
  /\ bank.keys # << >>
  /\ s.is_finished
  /\ s.stop_reason = "bank_exhausted"
  /\ s.current_item_id = Null
  /\ Len(s.administered) = 2
  /\ s.results.kind = "results"
  /\ s.results.total_items = 2

\* the number of records of a response log in a domain
loggedIn(ss, d) == Cardinality({ i \in 1..Len(ss.administered) : ss.administered[i].domain = d })

\* t holds the log of ss without its last record, and the pool and the
\* domain counts of that log
rolledBack(ss, t) ==
  /\ Len(t.administered) = Len(ss.administered) - 1
  /\ \A i \in 1..Len(t.administered) :
        /\ t.administered[i].item_id = ss.administered[i].item_id
        /\ t.administered[i].response = ss.administered[i].response
  /\ remainingSet(t) = allItems \ administeredIds(t)
  /\ Len(t.remaining) = Cardinality(remainingSet(t))
  /\ \A i \in 1..Len(bank.domains) :
        countOf(t, bank.domains[i]) = loggedIn(t, bank.domains[i])

\* C16: backOne on a session with n >= 1 records, each answered while the
\* session was not Finished, returns a session whose log is the first n-1
\* (item id, response) pairs in order, whose remaining pool is the bank's
\* items minus those, and whose domain counts match that log; on an empty
\* log it returns the session unchanged.
C16_BackOneDropsLast ==
  /\ Len(s.administered) = 0 => backOne(bank, s) = {s}
  /\ Len(s.administered) \in 1..MaxLog => \A t \in backOne(bank, s) : rolledBack(s, t)

\* a finished session of two answers that backOne reopens at one answer
C16_Witness ==
  /\ s.is_finished
  /\ Len(s.administered) = 2
  /\ \E t \in backOne(bank, s) :
        /\ ~t.is_finished
        /\ Len(t.administered) = 1
        /\ t.administered[1].item_id = s.administered[1].item_id
        /\ t.current_item_id # Null

\* the sessions a replay of the log of ss from a fresh session can end in
replayedFromScratch(ss) ==
  replay(bank, createSession(bank, ss.constraints_raw), ss.administered, 1)

\* the components of a session that its response log determines
sameEstimate(ss, t) ==
  /\ t.theta_vec = ss.theta_vec
  /\ t.Sigma = ss.Sigma
  /\ t.domain_counts = ss.domain_counts
  /\ t.is_finished = ss.is_finished
  /\ t.stop_reason = ss.stop_reason

\* C17: replaying a session's own response log from a fresh session (same
\* bank, configuration and constraints) through answer() gives the theta,
\* Sigma, domain counts, finished flag and stop reason of the session,
\* whatever the random choices of bootstrap and tie-break selection
\* (logs of up to twice MaxLog records are replayed).
C17_ReplayReproduces ==
  Len(s.administered) <= 2 * MaxLog =>
    \A t \in replayedFromScratch(s) : sameEstimate(s, t)

\* a replay of two answers from a fresh session whose random first item is
\* not the one the log starts with
C17_Witness ==
  /\ Len(s.administered) = 2
  /\ s.theta_vec # newSession(bank, {}).theta_vec
  /\ \E f \in createSession(bank, s.constraints_raw) :
        f.current_item_id # s.administered[1].item_id
  /\ \E t \in replayedFromScratch(s) : sameEstimate(s, t)


\* the components of a session that retrieving the current item leaves alone
sameProgress(ss, t) ==
  /\ t.administered = ss.administered
  /\ t.remaining = ss.remaining
  /\ t.domain_counts = ss.domain_counts
  /\ t.theta_vec = ss.theta_vec
  /\ t.Sigma = ss.Sigma

\* C18: on an unfinished session nextItem()/getCurrentItem() is idempotent:
\* a held pending item is returned as it is and nothing is selected, a call
\* changes neither log, remaining pool, domain counts, theta nor Sigma, and a
\* second call returns what the first returned and changes nothing.
C18_NextItemIdempotent ==
  ~s.is_finished =>
    \A t \in nextItem(bank, s) :
       /\ s.current_item_id # Null => t = s
       /\ sameProgress(s, t)
       /\ nextItem(bank, t) = {t}

\* a pending item is held while a selection could return another item, and
\* nextItem() keeps the held one
C18_Witness ==
  /\ ~s.is_finished
  /\ s.current_item_id # Null
  /\ selectNextItem(bank, s) # {s.current_item_id}
  /\ nextItem(bank, s) = {s}

\* C19: no engine operation modifies any field of the bank object, its
\* domain list and its prior covariance matrix included, whatever the shape
\* of the bank it was given.
C19_BankReadOnly == [][bank' = bank]_vars

\* both engines have been built
bothCreated == s # NoSession /\ peer # NoSession

\* the components of a session that a call on another session must leave alone
untouched(x, x2) ==
  /\ x2.theta_vec = x.theta_vec
  /\ x2.Sigma = x.Sigma
  /\ x2.administered = x.administered
  /\ x2.remaining = x.remaining
  /\ x2.domain_counts = x.domain_counts
  /\ x2.current_item_id = x.current_item_id
  /\ x2.is_finished = x.is_finished
  /\ x2.stop_reason = x.stop_reason

\* C20: of two sessions created from the same bank and constraints, a call
\* (answer, nextItem, finish, backOne) on one leaves the theta, Sigma,
\* response log, remaining pool, domain counts, pending item and termination
\* status of the other unchanged, in any interleaving.
C20_SessionsIndependent ==
  [][bothCreated => (untouched(s, s') \/ untouched(peer, peer'))]_vars

\* the two sessions have gone different ways: one finished after two
\* answers, the other still open after one, each with its own Sigma
C20_Witness ==
  /\ bothCreated
  /\ s.is_finished
  /\ Len(s.administered) = 2
  /\ ~peer.is_finished
  /\ Len(peer.administered) = 1
  /\ peer.Sigma # s.Sigma
  /\ peer.Sigma # bank.prior_covariance
  /\ shared = {}

RECURSIVE sumCounts(_, _)
\* the sum of the counts of the domains ds
sumCounts(counts, ds) ==
  IF ds = {} THEN 0
  ELSE LET d == CHOOSE x \in ds : TRUE IN counts[d] + sumCounts(counts, ds \ {d})

\* C21: the per-domain counts add up to the length of the response log in
\* every state reached through createSession, answer and backOne.
C21_CountsSumToLog ==
  sumCounts(s.domain_counts, DOMAIN s.domain_counts) = Len(s.administered)

\* two answers counted in two domains
C21_Witness ==
  /\ Len(s.administered) = 2
  /\ Cardinality(DOMAIN s.domain_counts) = 2
  /\ sumCounts(s.domain_counts, DOMAIN s.domain_counts) = 2

\* C22: in every reachable session state each component of theta is a
\* finite number in [-4, 4], whatever items and response values (out of
\* range and NaN included) have been answered.
C22_ThetaFiniteBounded ==
  \A d \in 1..Len(s.theta_vec) :
     /\ IsFinite(s.theta_vec[d])
     /\ -(4 * U) <= s.theta_vec[d]
     /\ s.theta_vec[d] <= 4 * U

\* a log holding a response outside the categories of its item, and an
\* estimate that has moved
C22_Witness ==
  /\ Len(s.administered) = 3
  /\ \E i \in 1..3 : s.administered[i].response \in {NaN, -1, 5}
  /\ \E d \in 1..Len(s.theta_vec) : s.theta_vec[d] # 0
  /\ \A d \in 1..Len(s.theta_vec) : IsFinite(s.theta_vec[d])

\* the domain index of the record an answer() has just logged
answeredDomain == domIndex(bank, s'.administered[Len(s'.administered)].domain)

\* a step of answer()
answered == Len(s'.administered) > Len(s.administered)

\* C23: the Sherman-Morrison update of an answer() increases no diagonal
\* entry of Sigma, and strictly decreases the variance of the answered
\* item's domain.
C23_DiagonalNeverIncreases ==
  [][answered =>
       /\ \A i \in 1..Len(s.Sigma) : s'.Sigma[i][i] <= s.Sigma[i][i]
       /\ s'.Sigma[answeredDomain][answeredDomain] < s.Sigma[answeredDomain][answeredDomain]]_vars

\* one answer has lowered the variance of its own domain and, through the
\* prior correlation, that of the other domain
C23_Witness ==
  /\ Len(s.administered) = 1
  /\ Len(s.Sigma) = 2
  /\ s.Sigma[1][1] < bank.prior_covariance[1][1]
  /\ s.Sigma[2][2] < bank.prior_covariance[2][2]

\* every diagonal entry of M is strictly positive
positiveDiagonal(M) == \A i \in 1..Len(M) : M[i][i] > 0

\* M[i][j] and M[j][i] differ by at most tol units of the resolution
symmetricWithin(M, tol) ==
  \A i, j \in 1..Len(M) : Abs(M[i][j] - M[j][i]) <= tol

\* a symmetric matrix with positive diagonal that no pair of domains
\* contradicts: M[i][j]^2 <= M[i][i] * M[j][j] (for two domains, a positive
\* semidefinite matrix, that is a covariance matrix)
covariancePrior(M) ==
  /\ positiveDiagonal(M)
  /\ symmetricWithin(M, 0)
  /\ \A i, j \in 1..Len(M) : M[i][j] * M[i][j] <= M[i][i] * M[j][j]

outcomes(itemId, r) ==
  { <<t.theta_vec, t.Sigma, t.is_finished, t.stop_reason>> : t \in answer(bank, s, itemId, r) }

\* the response values of a caller that are numbers outside [0, K-1]
outOfRange(item) ==
  { r \in RawResponses \ {NaN} : r < 0 \/ r > Len(item.thresholds) }

\* the nearest index in range, 0 or K-1
nearestInRange(item, r) == IF r < 0 THEN 0 ELSE Len(item.thresholds)

\* C25: answer(item, r) with r < 0 or r > K-1 completes, and gives the
\* theta, Sigma and termination decision of answering the same item with the
\* nearest index in range.
C25_OutOfRangeClamped ==
  (~s.is_finished /\ s.current_item_id # Null) =>
     \A r \in outOfRange(bank.items[s.current_item_id]) :
        /\ answer(bank, s, s.current_item_id, r) # {}
        /\ outcomes(s.current_item_id, r)
             = outcomes(s.current_item_id, nearestInRange(bank.items[s.current_item_id], r))

\* an answer above the range has moved the estimate as the top category does
C25_Witness ==
  /\ Len(s.administered) = 1
  /\ s.administered[1].item_id = "r"
  /\ s.administered[1].response = 5
  /\ s.theta_vec[1] > 0
  /\ <<s.theta_vec, s.Sigma>> \in
       { <<t.theta_vec, t.Sigma>> :
            t \in answer(bank, newSession(bank, s.constraints_raw), "r", 4) }

\* C26: for every administered item the category at which the estimator
\* evaluates the likelihood lies in [0, K'-1], K' the number of categories
\* of the item model used (the thresholds that are finite), also after the
\* reflection K-1-resp. Stated for the responses that are not NaN (a NaN
\* response passes both clamps as NaN).
C26_CategoryWithinModel ==
  \A i \in 1..Len(s.administered) :
     s.administered[i].response # NaN =>
       /\ observedCategory(bank.items[s.administered[i].item_id],
                           s.administered[i].response) >= 0
       /\ observedCategory(bank.items[s.administered[i].item_id],
                           s.administered[i].response)
            <= Len(finiteThresholds(bank.items[s.administered[i].item_id]))


\* C27: a caller who keeps answering the pending item reaches Finished, and
\* the log never grows beyond the number of bank items, whatever the
\* configuration.
C27_FinishesWithinBank ==
  /\ <>(s.is_finished)
  /\ [](Len(s.administered) <= Len(bank.keys))

\* the whole bank answered under a min_items no bank of that size can meet
C27_Witness ==
  /\ s.is_finished
  /\ Len(s.administered) = Len(bank.keys)
  /\ bank.cat_config.min_items > Len(bank.keys)
  /\ s.stop_reason = "bank_exhausted"


\* the option buttons in the document were rendered by a step() that has
\* since seen the engine finished and stored the results
storedResults == page.at \in alive /\ page.results_key.kind # "none"

\* the log holds no item twice
answeredOnce ==
  \A i, j \in 1..Len(s.administered) :
     s.administered[i].item_id = s.administered[j].item_id => i = j

\* C28: in the survey page no answer reaches the engine after step() has
\* seen it finished and stored the results, and no rendered item is
\* recorded twice, whatever the order of clicks, re-rendering and navigation.
C28_NoAnswerAfterFinish ==
  /\ [](page.at # "none" => answeredOnce)
  /\ [][storedResults => s'.administered = s.administered]_vars


\* C29: a call that records no answer (isFinished, getResults, _getSession,
\* getCurrentItem) leaves is_finished, stop_reason and results as they were,
\* so a session awaiting a response stays so.
C29_QueriesKeepStatus ==
  [][Len(s'.administered) = Len(s.administered)
       => /\ s'.is_finished = s.is_finished
          /\ s'.stop_reason = s.stop_reason
          /\ s'.results = s.results]_vars


\* initResults ran on stored results that are not usable and a stored
\* snapshot that holds results
fallbackOnSnapshot ==
  /\ page.at = "results"
  /\ page.rendered = NotRendered
  /\ page'.rendered # NotRendered
  /\ ~usable(page.results_key)
  /\ usable(page.session_key.results)

\* C30: on the results page, without usable stored results and with a
\* stored snapshot that holds results, initResults writes the snapshot's
\* results under the results key and renders them.
C30_SnapshotResultsShown ==
  [][fallbackOnSnapshot
       => /\ page'.results_key = page.session_key.results
          /\ page'.rendered = page.session_key.results]_vars

====
